---- MODULE Spec2Model ----
(***************************************************************************)
(* A model of example/magnet/magnet.cpp of Boost.URL: the magnet link      *)
(* grammar rule, the magnet_link_view accessors and the lazy               *)
(* filtered/transformed views they return.                                 *)
(*                                                                         *)
(* A text (string_view, std::string) is a sequence of one-character        *)
(* strings.  The generic URI grammar, percent-decoding and the query       *)
(* parameter range belong to the library, whose sources are not part of    *)
(* the example; they are modelled after RFC 3986 and the interface the     *)
(* example uses.                                                           *)
(***************************************************************************)
EXTENDS Integers, Sequences, FiniteSets, TLC

(***************************************************************************)
(* Characters.                                                             *)
(***************************************************************************)

\* The printable ASCII characters, code 32 first (the grave accent, which the
\* model's inputs never hold, is written by its code).
AsciiPrintable ==
    << " ", "!", "\"", "#", "$", "%", "&", "'", "(", ")", "*", "+", ",", "-", ".", "/",
       "0", "1", "2", "3", "4", "5", "6", "7", "8", "9", ":", ";", "<", "=", ">", "?",
       "@", "A", "B", "C", "D", "E", "F", "G", "H", "I", "J", "K", "L", "M", "N", "O",
       "P", "Q", "R", "S", "T", "U", "V", "W", "X", "Y", "Z", "[", "\\", "]", "^", "_",
       "<96>", "a", "b", "c", "d", "e", "f", "g", "h", "i", "j", "k", "l", "m", "n", "o",
       "p", "q", "r", "s", "t", "u", "v", "w", "x", "y", "z", "{", "|", "}", "~" >>

\* The character with code n.
Chr(n) ==
    IF n >= 32 /\ n < 32 + Len(AsciiPrintable)
    THEN AsciiPrintable[n - 32 + 1]
    ELSE "<" \o ToString(n) \o ">"

HexDigits == << "0", "1", "2", "3", "4", "5", "6", "7", "8", "9", "A", "B", "C", "D", "E", "F" >>

LowerHex == [c \in {"a", "b", "c", "d", "e", "f"} |->
               CASE c = "a" -> "A" [] c = "b" -> "B" [] c = "c" -> "C"
                 [] c = "d" -> "D" [] c = "e" -> "E" [] c = "f" -> "F"]

HexDig == {HexDigits[i] : i \in 1..Len(HexDigits)} \cup DOMAIN LowerHex

\* The value of one hexadecimal digit.
HexVal(c) ==
    LET u == IF c \in DOMAIN LowerHex THEN LowerHex[c] ELSE c
    IN  (CHOOSE i \in 1..Len(HexDigits) : HexDigits[i] = u) - 1

Digit == {"0", "1", "2", "3", "4", "5", "6", "7", "8", "9"}

Alpha == { "a", "b", "c", "d", "e", "f", "g", "h", "i", "j", "k", "l", "m",
          "n", "o", "p", "q", "r", "s", "t", "u", "v", "w", "x", "y", "z",
          "A", "B", "C", "D", "E", "F", "G", "H", "I", "J", "K", "L", "M",
          "N", "O", "P", "Q", "R", "S", "T", "U", "V", "W", "X", "Y", "Z" }

\* grammar::digit_chars
digit_chars(c) == c \in Digit

\* RFC 3986 character classes.
Unreserved == Alpha \cup Digit \cup {"-", ".", "_", "~"}

SubDelims == {"!", "$", "&", "'", "(", ")", "*", "+", ",", ";", "="}

SchemeChars == Alpha \cup Digit \cup {"+", "-", "."}

UserinfoChars == Unreserved \cup SubDelims \cup {":"}

RegNameChars == Unreserved \cup SubDelims

PChars == Unreserved \cup SubDelims \cup {":", "@"}

PathChars == PChars \cup {"/"}

QueryChars == PChars \cup {"/", "?"}

(***************************************************************************)
(* Texts.                                                                  *)
(***************************************************************************)

\* string_view::substr(pos): the text from the 0-based position pos on.
SubstrFrom(t, pos) == SubSeq(t, pos + 1, Len(t))

\* string_view::substr(0, n): the first n characters, clamped to the text.
SubstrTo(t, n) == SubSeq(t, 1, IF n > Len(t) THEN Len(t) ELSE n)

\* string_view::npos: the largest position there is.
npos == 2147483647

\* string_view::find_last_of(c): the 0-based position of the last c, or npos.
find_last_of(t, c) ==
    IF \E i \in 1..Len(t) : t[i] = c
    THEN (CHOOSE i \in 1..Len(t) :
              t[i] = c /\ \A j \in (i + 1)..Len(t) : t[j] # c) - 1
    ELSE npos

\* The 1-based index of the first c of t at or after index i, or Len(t) + 1.
RECURSIVE FindFrom(_, _, _)
FindFrom(t, i, c) ==
    IF i > Len(t) THEN Len(t) + 1
    ELSE IF t[i] = c THEN i
    ELSE FindFrom(t, i + 1, c)

(***************************************************************************)
(* Percent-decoding (pct_encoded_view).                                    *)
(***************************************************************************)

\* The decoded characters of the encoded text t from index i on.  A "%"
\* escape is one character; "+" is a space (pct_decode_opts::plus_to_space,
\* which is on by default).
RECURSIVE DecodeFrom(_, _)
DecodeFrom(t, i) ==
    IF i > Len(t) THEN << >>
    ELSE IF t[i] = "%" /\ i + 2 <= Len(t)
         THEN << Chr(16 * HexVal(t[i + 1]) + HexVal(t[i + 2])) >>
                  \o DecodeFrom(t, i + 3)
    ELSE IF t[i] = "+" THEN << " " >> \o DecodeFrom(t, i + 1)
    ELSE << t[i] >> \o DecodeFrom(t, i + 1)

\* The decoded text a pct_encoded_view over t stands for.
Decode(t) == DecodeFrom(t, 1)

\* pct_encoded_view::size(): the number of decoded characters.
DecodedSize(t) == Len(Decode(t))

\* pct_encoded_view == string_view: the decoded text equals the plain text.
PctEquals(t, plain) == Decode(t) = plain

\* The number of encoded characters that the first n decoded characters of
\* t take: the offset of std::next(begin(), n).base().
RECURSIVE EncodedOffset(_, _, _)
EncodedOffset(t, i, n) ==
    IF n = 0 \/ i > Len(t) THEN i - 1
    ELSE IF t[i] = "%" /\ i + 2 <= Len(t) THEN EncodedOffset(t, i + 3, n - 1)
    ELSE EncodedOffset(t, i + 1, n - 1)

(***************************************************************************)
(* The generic URI grammar (RFC 3986), as the library's absolute_uri_rule  *)
(* and parse_uri apply it.  IP literals are left out: the inputs of the    *)
(* model hold no "[".                                                      *)
(***************************************************************************)

\* The index after the longest run, from index i, of characters of cls.
RECURSIVE PlainRunEnd(_, _, _)
PlainRunEnd(t, i, cls) ==
    IF i > Len(t) THEN i
    ELSE IF t[i] \in cls THEN PlainRunEnd(t, i + 1, cls)
    ELSE i

\* The same, where a "%" escape with two hexadecimal digits is a character
\* of the run; 0 when a "%" is not followed by two hexadecimal digits, which
\* is an error of the grammar.
RECURSIVE RunEnd(_, _, _)
RunEnd(t, i, cls) ==
    IF i > Len(t) THEN i
    ELSE IF t[i] = "%"
         THEN IF i + 2 <= Len(t) /\ t[i + 1] \in HexDig /\ t[i + 2] \in HexDig
              THEN RunEnd(t, i + 3, cls)
              ELSE 0
    ELSE IF t[i] \in cls THEN RunEnd(t, i + 1, cls)
    ELSE i

\* t[i] is the character c.
At(t, i, c) == i >= 1 /\ i <= Len(t) /\ t[i] = c

\* The text of t from index i up to, not including, index j.
Slice(t, i, j) == SubSeq(t, i, j - 1)

\* A failed result<url_view>.
NoUrl ==
    [ok |-> FALSE, next |-> 1, scheme |-> << >>,
     has_authority |-> FALSE, authority |-> << >>, path |-> << >>,
     has_query |-> FALSE, query |-> << >>,
     has_fragment |-> FALSE, fragment |-> << >>]

\* The URL whose scheme ends before index se, whose path is t[p0..pe-1],
\* whose query ends before qe and whose fragment ends before fe.
UrlOf(t, se, has_auth, p0, pe, qe, fe) ==
    [ok |-> TRUE, next |-> fe, scheme |-> Slice(t, 1, se),
     has_authority |-> has_auth,
     authority |-> IF has_auth THEN Slice(t, se + 3, p0) ELSE << >>,
     path |-> Slice(t, p0, pe),
     has_query |-> qe > pe,
     query |-> IF qe > pe THEN Slice(t, pe + 1, qe) ELSE << >>,
     has_fragment |-> fe > qe,
     fragment |-> IF fe > qe THEN Slice(t, qe + 1, fe) ELSE << >>]

\* [ "#" fragment ], when the grammar has one.  An end of 0 is an error of
\* the part before.
AfterQuery(t, with_fragment, se, has_auth, p0, pe, qe) ==
    IF qe = 0 THEN NoUrl
    ELSE IF with_fragment /\ At(t, qe, "#")
    THEN LET fe == RunEnd(t, qe + 1, QueryChars)
         IN  IF fe = 0 THEN NoUrl ELSE UrlOf(t, se, has_auth, p0, pe, qe, fe)
    ELSE UrlOf(t, se, has_auth, p0, pe, qe, qe)

\* [ "?" query ]
AfterPath(t, with_fragment, se, has_auth, p0, pe) ==
    IF pe = 0 THEN NoUrl
    ELSE AfterQuery(t, with_fragment, se, has_auth, p0, pe,
                    IF At(t, pe, "?") THEN RunEnd(t, pe + 1, QueryChars) ELSE pe)

\* The path from index p0: path-abempty after an authority, else
\* path-absolute, path-rootless or path-empty.
AfterAuthority(t, with_fragment, se, has_auth, p0) ==
    IF p0 = 0 THEN NoUrl
    ELSE AfterPath(t, with_fragment, se, has_auth, p0,
                   IF has_auth /\ ~At(t, p0, "/") THEN p0
                   ELSE RunEnd(t, p0, PathChars))

\* host [ ":" port ] from index hs: the index after it.
HostEnd(t, hs) ==
    LET he == RunEnd(t, hs, RegNameChars)
    IN  IF he # 0 /\ At(t, he, ":") THEN PlainRunEnd(t, he + 1, Digit) ELSE he

\* authority = [ userinfo "@" ] host [ ":" port ] from index a1: the index
\* after it.
AuthorityEnd(t, a1) ==
    LET ue == RunEnd(t, a1, UserinfoChars)
    IN  HostEnd(t, IF ue # 0 /\ At(t, ue, "@") THEN ue + 1 ELSE a1)

\* The index of the ":" that ends the scheme at the start of t, or 0.
SchemeEnd(t) ==
    IF Len(t) >= 1 /\ t[1] \in Alpha
    THEN LET se == PlainRunEnd(t, 2, SchemeChars)
         IN  IF At(t, se, ":") THEN se ELSE 0
    ELSE 0

\* scheme ":" hier-part [ "?" query ] [ "#" fragment ], matched greedily from
\* the start of t; next is the index after the match.  The fragment is part
\* of the grammar only when with_fragment.
ParseUriParts(t, with_fragment) ==
    LET se == SchemeEnd(t)
    IN  IF se = 0 THEN NoUrl
        ELSE IF At(t, se + 1, "/") /\ At(t, se + 2, "/")
        THEN AfterAuthority(t, with_fragment, se, TRUE, AuthorityEnd(t, se + 3))
        ELSE AfterAuthority(t, with_fragment, se, FALSE, se + 1)

\* grammar::parse(it, end, absolute_uri_rule): an absolute URI has no
\* fragment; the match may stop before the end of the text.
absolute_uri_rule(t) == ParseUriParts(t, FALSE)

\* parse_uri(s): the whole text is a URI, or the result is an error.
parse_uri(t) ==
    LET r == ParseUriParts(t, TRUE)
    IN  IF r.ok /\ r.next = Len(t) + 1 THEN r ELSE NoUrl

\* url_view::encoded_path()
encoded_path(u) == u.path

(***************************************************************************)
(* The query parameters of a URL (params_view): the pieces of the query    *)
(* between "&", each split at its first "=".  Keys and values stay         *)
(* encoded; they are compared and read through Decode.                     *)
(***************************************************************************)

\* One query_param_view, from the text of one piece.
ParamOf(piece) ==
    LET e == FindFrom(piece, 1, "=")
    IN  [key |-> Slice(piece, 1, e),
         value |-> SubSeq(piece, e + 1, Len(piece)),
         has_value |-> e <= Len(piece)]

RECURSIVE SplitParams(_, _)
SplitParams(q, i) ==
    LET e == FindFrom(q, i, "&")
    IN  << ParamOf(Slice(q, i, e)) >>
            \o (IF e > Len(q) THEN << >> ELSE SplitParams(q, e + 1))

\* url_view::params(): no query, no parameters.
params(u) == IF u.has_query THEN SplitParams(u.query, 1) ELSE << >>

(***************************************************************************)
(* magnet.cpp: the predicates and transforms of the views.                 *)
(***************************************************************************)

\* A faulty variant of is_exact_topic: the size test is off by one, so that "xt."
\* with no digit passes.
is_exact_topic_NoDigits(p) ==
    IF PctEquals(p.key, <<"x", "t">>) THEN TRUE
    ELSE LET k == Decode(p.key)
         IN  /\ DecodedSize(p.key) > 2
             /\ k[1] = "x"
             /\ k[2] = "t"
             /\ k[3] = "."
             /\ \A i \in 4..Len(k) : digit_chars(k[i])

\* is_exact_topic::operator(): the key is "xt", or "xt." and digits.
is_exact_topic(p) ==
    IF PctEquals(p.key, <<"x", "t">>) THEN TRUE
    ELSE LET k == Decode(p.key)
         IN  /\ DecodedSize(p.key) > 3
             /\ k[1] = "x"
             /\ k[2] = "t"
             /\ k[3] = "."
             /\ \A i \in 4..Len(k) : digit_chars(k[i])

\* pct_encoded_view::assign_to(buffer): the buffer becomes the decoded text.
assign_to(value, buffer) == Decode(value)

\* A faulty variant of is_url_with_key: the key is not compared.
is_url_with_key_AnyKey(k_, buf_, p) ==
    LET b == assign_to(p.value, buf_)
    IN  [result |-> parse_uri(b).ok, buf |-> b]

\* A faulty variant of is_url_with_key: the value is appended to the buffer.
is_url_with_key_Append(k_, buf_, p) ==
    IF ~PctEquals(p.key, k_) THEN [result |-> FALSE, buf |-> buf_]
    ELSE LET b == buf_ \o assign_to(p.value, buf_)
         IN  [result |-> parse_uri(b).ok, buf |-> b]

\* A faulty variant of is_url_with_key: the value is decoded aside, and reaches the
\* buffer only if it is a URL.
is_url_with_key_KeepOnFailure(k_, buf_, p) ==
    IF ~PctEquals(p.key, k_) THEN [result |-> FALSE, buf |-> buf_]
    ELSE LET b == assign_to(p.value, buf_)
         IN  IF parse_uri(b).ok THEN [result |-> TRUE, buf |-> b]
             ELSE [result |-> FALSE, buf |-> buf_]

\* is_url_with_key::operator() of a predicate bound to key k_ and to a
\* buffer holding buf_: the result, and what the buffer holds afterwards.
is_url_with_key(k_, buf_, p) ==
    IF ~PctEquals(p.key, k_) THEN [result |-> FALSE, buf |-> buf_]
    ELSE LET b == assign_to(p.value, buf_)
         IN  [result |-> parse_uri(b).ok, buf |-> b]

\* What result<url_view>::value() leaves of a transform when the nested
\* parse failed: the exception bad_result_access, here a text no input holds.
Thrown == << "<bad_result_access>" >>

\* to_url::operator(): the value, still encoded, parsed as a URI.
to_url(p) ==
    LET u == parse_uri(p.value)
    IN  IF u.ok THEN u ELSE NoUrl

\* to_decoded_value::operator(): the value, read decoded.
to_decoded_value(p) == Decode(p.value)

\* A faulty variant of to_infohash: the path is split at its first colon.
infohash_of_path_FirstColon(t) ==
    LET pos == FindFrom(t, 1, ":")
    IN  IF pos <= Len(t) THEN SubSeq(t, pos + 1, Len(t)) ELSE t

\* to_infohash::operator() once the topic is parsed and t is its path: the
\* path after its last colon, the whole path when it has none.
infohash_of_path(t) ==
    LET pos == find_last_of(t, ":")
    IN  IF pos # npos THEN SubstrFrom(t, pos + 1) ELSE t

\* to_infohash::operator()
to_infohash(p) ==
    LET topic == parse_uri(p.value)
    IN  IF ~topic.ok THEN Thrown ELSE infohash_of_path(encoded_path(topic))

\* A faulty variant of to_protocol: a path with no colon has no protocol.
protocol_of_path_EmptyWithoutColon(t) ==
    LET pos == find_last_of(t, ":")
    IN  IF pos = npos THEN << >> ELSE SubstrTo(t, pos)

\* to_protocol::operator() once the topic is parsed and t is its path: the
\* path before its last colon.
protocol_of_path(t) ==
    LET pos == find_last_of(t, ":")
    IN  SubstrTo(t, pos)

\* to_protocol::operator()
to_protocol(p) ==
    LET topic == parse_uri(p.value)
    IN  IF ~topic.ok THEN Thrown ELSE protocol_of_path(encoded_path(topic))

(***************************************************************************)
(* The accessors of magnet_link_view and the views they return.            *)
(***************************************************************************)

TopicAccessors == {"exact_topics", "info_hashes", "protocols"}

\* The key each keys_view accessor binds its predicate to.
KeyOf ==
    [address_trackers |-> <<"t", "r">>,
     exact_sources |-> <<"x", "s">>,
     acceptable_sources |-> <<"a", "s">>,
     manifest_topics |-> <<"m", "t">>,
     web_seed |-> <<"w", "s">>]

KeyAccessors == DOMAIN KeyOf

\* The filter of the view an accessor returns, applied to p while the
\* scratch buffer holds b.
Filter(acc, p, b) ==
    IF acc \in TopicAccessors
    THEN [result |-> is_exact_topic(p), buf |-> b]
    ELSE is_url_with_key(KeyOf[acc], b, p)

\* The transform of the view an accessor returns.
Transform(acc, p) ==
    CASE acc = "exact_topics" -> to_url(p)
      [] acc = "info_hashes" -> to_infohash(p)
      [] acc = "protocols" -> to_protocol(p)
      [] OTHER -> to_decoded_value(p)

\* filtered_view's iterator: from position i, the first position whose
\* parameter passes the filter (Len(ps) + 1: the end), and the buffer after
\* the filter calls made on the way.
RECURSIVE find_next(_, _, _, _)
find_next(ps, i, acc, b) ==
    IF i > Len(ps) THEN [pos |-> i, buf |-> b]
    ELSE LET f == Filter(acc, ps[i], b)
         IN  IF f.result THEN [pos |-> i, buf |-> f.buf]
             ELSE find_next(ps, i + 1, acc, f.buf)

\* An optional value.
None == [has |-> FALSE, value |-> << >>]

Some(v) == [has |-> TRUE, value |-> v]

\* A faulty variant of param's loop: a parameter with the key asked for and no
\* value ends the search.
RECURSIVE param_from_StopAtValueless(_, _, _)
param_from_StopAtValueless(ps, i, key) ==
    IF i > Len(ps) THEN None
    ELSE
    LET p == ps[i] IN
    IF DecodedSize(p.key) < 2 THEN param_from_StopAtValueless(ps, i + 1, key)
    ELSE
    LET mid == EncodedOffset(p.key, 1, 2)
        prefix == SubSeq(p.key, 1, mid)
        suffix == SubSeq(p.key, mid + 1, Len(p.key))
    IN  IF PctEquals(prefix, <<"x", ".">>) /\ PctEquals(suffix, key)
        THEN IF p.has_value THEN Some(Decode(p.value)) ELSE None
        ELSE param_from_StopAtValueless(ps, i + 1, key)

\* magnet_link_view::param's loop, from position i.
RECURSIVE param_from(_, _, _)
param_from(ps, i, key) ==
    IF i > Len(ps) THEN None
    ELSE
    LET p == ps[i] IN
    IF DecodedSize(p.key) < 2 THEN param_from(ps, i + 1, key)
    ELSE
    LET mid == EncodedOffset(p.key, 1, 2)
        prefix == SubSeq(p.key, 1, mid)
        suffix == SubSeq(p.key, mid + 1, Len(p.key))
    IN  IF PctEquals(prefix, <<"x", ".">>) /\ PctEquals(suffix, key) /\ p.has_value
        THEN Some(Decode(p.value))
        ELSE param_from(ps, i + 1, key)

\* magnet_link_view::param(key)
param(u, key) == param_from(params(u), 1, key)

\* params_encoded_view::find(key): the first position whose key is key, or
\* the end.
RECURSIVE find(_, _, _)
find(ps, i, key) ==
    IF i > Len(ps) THEN i
    ELSE IF PctEquals(ps[i].key, key) THEN i
    ELSE find(ps, i + 1, key)

\* magnet_link_view::decoded_param(key)
decoded_param(u, key) ==
    LET ps == params(u)
        i == find(ps, 1, key)
    IN  IF i <= Len(ps) /\ ps[i].has_value
        THEN Some(Decode(ps[i].value))
        ELSE None

\* magnet_link_view::keyword_topic()
keyword_topic(u) == decoded_param(u, <<"k", "t">>)

\* magnet_link_view::display_name()
display_name(u) == decoded_param(u, <<"d", "n">>)

(***************************************************************************)
(* The grammar rule.                                                       *)
(***************************************************************************)

\* std::find_if(pit, pend, is_exact_topic{})
RECURSIVE find_if(_, _)
find_if(ps, i) ==
    IF i > Len(ps) THEN i
    ELSE IF is_exact_topic(ps[i]) THEN i
    ELSE find_if(ps, i + 1)

\* A faulty variant of the rule's lambda: every parameter must hold a URL.
topic_is_url_Every(p) == parse_uri(p.value).ok

\* The lambda of magnet_link_rule_t::parse: an exact topic must parse.
topic_is_url(p) ==
    IF ~is_exact_topic(p) THEN TRUE
    ELSE parse_uri(p.value).ok

\* A rejection of the rule; next is how far the input cursor has moved.
Invalid(next) == [ok |-> FALSE, next |-> next, u |-> NoUrl]

\* A faulty variant of check_exact_topics: the test for a missing exact topic is
\* left out.
check_exact_topics_NoneNeeded(u, ps, pit) ==
    IF ~(\A i \in pit..Len(ps) : topic_is_url(ps[i]))
    THEN Invalid(u.next)
    ELSE [ok |-> TRUE, next |-> u.next, u |-> u]

\* A faulty variant of check_exact_topics: only the first exact topic is validated.
check_exact_topics_FirstOnly(u, ps, pit) ==
    IF pit = Len(ps) + 1 THEN Invalid(u.next)
    ELSE IF ~topic_is_url(ps[pit]) THEN Invalid(u.next)
    ELSE [ok |-> TRUE, next |-> u.next, u |-> u]

\* Step 2 of magnet_link_rule_t::parse, on the parameters ps of the URL u
\* that step 1 parsed: there is an exact topic, and from the first one on
\* every exact topic is a URL.
check_exact_topics(u, ps, pit) ==
    IF pit = Len(ps) + 1 THEN Invalid(u.next)
    ELSE IF ~(\A i \in pit..Len(ps) : topic_is_url(ps[i]))
         THEN Invalid(u.next)
    ELSE [ok |-> TRUE, next |-> u.next, u |-> u]

\* magnet_link_rule_t::parse once step 1 has given the result r.
rule_after_uri(r) ==
    IF ~r.ok THEN Invalid(1)
    ELSE check_exact_topics(r, params(r), find_if(params(r), 1))

\* magnet_link_rule_t::parse
magnet_link_rule_parse(t) == rule_after_uri(absolute_uri_rule(t))

\* grammar::parse(s, rule) once the rule has given rv on the text t: the
\* rule must match and leave nothing of the text.
whole_text(t, rv) ==
    IF ~rv.ok THEN [status |-> "invalid", next |-> rv.next, u |-> NoUrl]
    ELSE IF rv.next # Len(t) + 1
         THEN [status |-> "leftover", next |-> rv.next, u |-> NoUrl]
    ELSE [status |-> "ok", next |-> rv.next, u |-> rv.u]

\* parse_magnet_link, that is grammar::parse(s, magnet_link_rule)
parse_magnet_link(t) == whole_text(t, magnet_link_rule_parse(t))

(***************************************************************************)
(* The inputs of the model.                                                *)
(***************************************************************************)

\* The most query parameters of an input of Spec.
MaxParams == 3

\* The most query parameters, after the exact topic, of an input of SpecViews.
MaxViewParams == 2

\* The most query parameters, after the exact topic, of an input of
\* SpecParam.
MaxExtParams == 2

\* The most characters, each plain or a "%" escape, of a key of SpecKey.
MaxKeyLen == 4

\* The sequences of at most n elements of S.
SeqsUpTo(S, n) == UNION {[1..k -> S] : k \in 0..n}

\* The pieces joined by "&".
RECURSIVE JoinParams(_)
JoinParams(pieces) ==
    IF Len(pieces) = 0 THEN << >>
    ELSE IF Len(pieces) = 1 THEN pieces[1]
    ELSE pieces[1] \o << "&" >> \o JoinParams(Tail(pieces))

\* The texts of a sequence, one after the other.
RECURSIVE Concat(_)
Concat(ts) == IF Len(ts) = 0 THEN << >> ELSE ts[1] \o Concat(Tail(ts))

\* The query parameters of the inputs of Spec: exact topics that parse and
\* that do not, a key spelled with an escape, a tracker and a keyword.
ParamPool ==
    { <<"x", "t", "=", "u", "r", "n", ":", "b", "t", "i", "h", ":", "h">>, <<"x", "t", ".", "1", "=", "u", "r", "n", ":", "a", ":", "b", ":", "c">>, <<"%", "7", "8", "t", "=", "u", ":", "p", "?", "q", ":", "r">>, <<"x", "t", "=", "n", "o", "u", "r", "i">>,
      <<"x", "t">>, <<"t", "r", "=", "b", "a", "d">>, <<"k", "t", "=", "k", "+", "w">> }

InputPrefixes == { <<"m", "a", "g", "n", "e", "t", ":">>, <<"h", "t", "t", "p", ":", "/", "/", "h", "/", "p">> }

\* What may follow the URI in the text handed to the parser.
InputSuffixes == { << >>, <<"#", "f">> }

Queries == { << >> } \cup
    { << "?" >> \o JoinParams(ps) : ps \in SeqsUpTo(ParamPool, MaxParams) }

Inputs == { pre \o q \o suf :
              pre \in InputPrefixes, q \in Queries, suf \in InputSuffixes }

\* The parameters that follow the exact topic in the inputs of SpecViews.
ViewPool ==
    { <<"t", "r", "=", "u", "%", "3", "A", "b">>, <<"t", "r", "=", "b", "a", "d">>, <<"t", "r">>, <<"%", "7", "4", "r", "=", "w", "%", "3", "A", "%", "2", "F", "%", "2", "F", "h">>, <<"w", "s", "=", "v", "%", "3", "A", "e">>, <<"d", "n", "=", "f">> }

ViewInputs ==
    { <<"m", "a", "g", "n", "e", "t", ":", "?", "x", "t", "=", "u", "r", "n", ":", "b", "t", "i", "h", ":", "h">> \o Concat([i \in DOMAIN ps |-> << "&" >> \o ps[i]]) :
        ps \in SeqsUpTo(ViewPool, MaxViewParams) }

\* What the caller's scratch buffer may hold before the first view is made.
InitialBuffers == { << >>, <<"q", ":", "r">> }

\* The parameters that follow the exact topic in the inputs of SpecParam.
ExtPool ==
    { <<"x", ".", "a", "=", "v">>, <<"x", ".", "a">>, <<"a", "=", "v">>, <<"%", "7", "8", ".", "a", "=", "w", "+", "z">>, <<"x", "=", "1">>, <<"x", ".", "a", "b", "=", "q">>, <<"a", "b", "=", "r">> }

ParamInputs ==
    { <<"m", "a", "g", "n", "e", "t", ":", "?", "x", "t", "=", "u", "r", "n", ":", "b", "t", "i", "h", ":", "h">> \o Concat([i \in DOMAIN ps |-> << "&" >> \o ps[i]]) :
        ps \in SeqsUpTo(ExtPool, MaxExtParams) }

\* The names param() is asked for.
ParamNames == { <<"a">>, <<"a", "b">> }

\* The characters, plain and escaped, the keys of SpecKey are made of.
KeyUnits == { <<"x">>, <<"t">>, <<".">>, <<"1">>, <<"a">>, <<"X">>, <<"T">>, <<"%", "7", "8">>, <<"%", "7", "4">>, <<"%", "2", "e">> }

Keys == { Concat(us) : us \in SeqsUpTo(KeyUnits, MaxKeyLen) }

(***************************************************************************)
(* The state.                                                              *)
(***************************************************************************)

VARIABLES
    input,      \* the text handed to the parser
    r,          \* the result of the parse: its status and the view's u_
    buf,        \* the caller's scratch buffer, shared by the keys_views
    it,         \* what the caller holds in each of two places: the accessor
                \* called, and the position and the elements read so far of
                \* an iterator of its view, or the value it returned
    produced,   \* history: the element a keys_view produced last
    tested,     \* history: the value a keys_view filter decoded last
    probe       \* a key handed to is_exact_topic, and the answer

vars == << input, r, buf, it, produced, tested, probe >>

\* The places a caller holds iterators and values in.
Iterators == {"i1", "i2"}

NotParsed == [status |-> "none", next |-> 1, u |-> NoUrl]

Idle == [acc |-> "none", arg |-> << >>, pos |-> 0, out |-> << >>]

NoProbe == [key |-> << >>, called |-> FALSE, result |-> FALSE]

InitOn(inputs, buffers) ==
    /\ input \in inputs
    /\ r = NotParsed
    /\ buf \in buffers
    /\ it = [s \in Iterators |-> Idle]
    /\ produced = None
    /\ tested = None
    /\ probe = NoProbe

Init == InitOn(Inputs, { << >> })

InitViews == InitOn(ViewInputs, InitialBuffers)

InitParam == InitOn(ParamInputs, { << >> })

InitKey ==
    /\ input = << >>
    /\ r = NotParsed
    /\ buf = << >>
    /\ it = [s \in Iterators |-> Idle]
    /\ produced = None
    /\ tested = None
    /\ probe \in { [key |-> k, called |-> FALSE, result |-> FALSE] : k \in Keys }

(***************************************************************************)
(* The operations.                                                         *)
(***************************************************************************)

\* The rule applied to the text: a view is returned when it matches, even
\* if text is left over.
RuleResult(rv) ==
    [status |-> IF rv.ok THEN "ok" ELSE "invalid", next |-> rv.next, u |-> rv.u]

MagnetLinkRuleParse ==
    /\ r.status = "none"
    /\ r' = RuleResult(magnet_link_rule_parse(input))
    /\ UNCHANGED << input, buf, it, produced, tested, probe >>

\* parse_magnet_link(input)
ParseMagnetLink ==
    /\ r.status = "none"
    /\ r' = parse_magnet_link(input)
    /\ UNCHANGED << input, buf, it, produced, tested, probe >>

\* The greatest element of a non-empty set of numbers.
Max(S) == CHOOSE x \in S : \A y \in S : y <= x

\* The value the filter of a keys_view decoded last: that of the last of
\* the positions it has just tested, or the one before if it tested none.
LastTested(ps, before, keyed) ==
    IF keyed = {} THEN before ELSE Some(Decode(ps[Max(keyed)].value))

\* The positions from i to j whose key is the key a keys_view accessor is
\* bound to.
KeyedIn(ps, acc, i, j) ==
    {k \in i..j : acc \in KeyAccessors /\ Decode(ps[k].key) = KeyOf[acc]}

\* The iterator s has moved from position from to land.pos, the filter
\* calls on the way leaving land.buf in the buffer; elems is the element it
\* reads there, if it is not at the end.
Arrive(s, acc, from, out, ps, land, elems) ==
    /\ it' = [it EXCEPT ![s] =
                 [acc |-> acc, arg |-> << >>, pos |-> land.pos,
                  out |-> out \o elems]]
    /\ buf' = land.buf
    /\ produced' = IF elems # << >> /\ acc \in KeyAccessors
                   THEN Some(elems[1]) ELSE produced
    /\ tested' = LastTested(ps, tested,
                     KeyedIn(ps, acc, from,
                             IF land.pos <= Len(ps) THEN land.pos ELSE Len(ps)))
    /\ UNCHANGED << input, r, probe >>

\* operator* of an iterator at position pos: the transform of the element.
Deref(acc, ps, pos) ==
    IF pos <= Len(ps) THEN << Transform(acc, ps[pos]) >> ELSE << >>

Landing(s, acc, from, out, ps, land) ==
    Arrive(s, acc, from, out, ps, land, Deref(acc, ps, land.pos))

\* The iterator s moves from position from to the next element of its view
\* (begin() moves from the first parameter), and the element is read.
MoveTo(s, acc, from, out) ==
    Landing(s, acc, from, out, params(r.u), find_next(params(r.u), from, acc, buf))

\* An accessor returns a view and the caller takes its begin().
Begin(s, acc) ==
    /\ r.status = "ok"
    /\ MoveTo(s, acc, 1, << >>)

ExactTopics(s) == Begin(s, "exact_topics")

InfoHashes(s) == Begin(s, "info_hashes")

Protocols(s) == Begin(s, "protocols")

AddressTrackers(s) == Begin(s, "address_trackers")

ExactSources(s) == Begin(s, "exact_sources")

AcceptableSources(s) == Begin(s, "acceptable_sources")

ManifestTopics(s) == Begin(s, "manifest_topics")

WebSeed(s) == Begin(s, "web_seed")

\* operator++ of an iterator that is not at the end, and the read of the
\* element it reaches.
Advance(s) ==
    /\ r.status = "ok"
    /\ it[s].acc \in TopicAccessors \cup KeyAccessors
    /\ it[s].pos <= Len(params(r.u))
    /\ MoveTo(s, it[s].acc, it[s].pos + 1, it[s].out)

\* The elements of an optional value: one, or none.
Elems(opt) == IF opt.has THEN << opt.value >> ELSE << >>

\* A single-valued accessor fn, called with arg, returns opt; the caller
\* holds the value in place s.
Return(s, fn, arg, opt) ==
    /\ r.status = "ok"
    /\ it' = [it EXCEPT ![s] =
                 [acc |-> fn, arg |-> arg, pos |-> Len(params(r.u)) + 1,
                  out |-> Elems(opt)]]
    /\ UNCHANGED << input, r, buf, produced, tested, probe >>

KeywordTopic(s) == Return(s, "keyword_topic", << >>, keyword_topic(r.u))

DisplayName(s) == Return(s, "display_name", << >>, display_name(r.u))

Param(s, name) == Return(s, "param", name, param(r.u, name))

\* is_exact_topic applied to a parameter with the probed key.
CallIsExactTopic ==
    /\ ~probe.called
    /\ probe' = [probe EXCEPT
                   !.called = TRUE,
                   !.result = is_exact_topic(
                       [key |-> probe.key, value |-> << >>, has_value |-> FALSE])]
    /\ UNCHANGED << input, r, buf, it, produced, tested >>

(***************************************************************************)
(* The specifications.                                                     *)
(***************************************************************************)

\* One link parsed, by the rule or by parse_magnet_link, then its exact
\* topics, its keyword topic and its display name read.
Next ==
    \/ MagnetLinkRuleParse
    \/ ParseMagnetLink
    \/ ExactTopics("i1")
    \/ InfoHashes("i1")
    \/ Protocols("i1")
    \/ Advance("i1")
    \/ KeywordTopic("i1")
    \/ DisplayName("i1")

Spec == Init /\ [][Next]_vars

\* One link parsed, then param() called for one name after the other.
NextParam ==
    \/ ParseMagnetLink
    \/ \E name \in ParamNames : Param("i1", name)

SpecParam == InitParam /\ [][NextParam]_vars

\* One link parsed, then any accessor called and its view iterated in the
\* first place, while a second view of address_trackers() or web_seed()
\* over the same scratch buffer is iterated in the second; the steps
\* interleave in any order.
NextViews ==
    \/ ParseMagnetLink
    \/ ExactTopics("i1")
    \/ InfoHashes("i1")
    \/ Protocols("i1")
    \/ KeywordTopic("i1")
    \/ DisplayName("i1")
    \/ \E name \in ParamNames : Param("i1", name)
    \/ ExactSources("i1")
    \/ AcceptableSources("i1")
    \/ ManifestTopics("i1")
    \/ \E s \in Iterators :
          \/ AddressTrackers(s)
          \/ WebSeed(s)
          \/ Advance(s)

SpecViews == InitViews /\ [][NextViews]_vars

\* is_exact_topic on every key of Keys.
NextKey == CallIsExactTopic

SpecKey == InitKey /\ [][NextKey]_vars

(***************************************************************************)
(* Properties.                                                             *)
(***************************************************************************)

\* A view was returned.
Accepted == r.status = "ok"

\* The parameters of the view's URL.
Ps == params(r.u)

\* The generic parse of the input, and the parameters it gives.
Generic == absolute_uri_rule(input)

GenericPs == params(Generic)

\* The positions of ps that hold an exact topic.
TopicPositions(ps) == {i \in 1..Len(ps) : is_exact_topic(ps[i])}

\* The place s holds an iterator, or a value, of accessor acc.
Holds(s, acc) == it[s].acc = acc

\* The iterator in place s has reached the end of its view.
AtEnd(s) == it[s].pos = Len(Ps) + 1

\* C1: an accepted input has a parameter that is an exact topic, and the
\* view exact_topics() of the result is not empty: its begin() reads an
\* element.  An input with no exact topic (so one with no query) is
\* rejected, and no view is returned.
C1_AcceptedHasExactTopic ==
    /\ Accepted =>
          /\ TopicPositions(Ps) # {}
          /\ \A s \in Iterators :
                Holds(s, "exact_topics") => Len(it[s].out) >= 1
    /\ (r.status # "none" /\ (~Generic.ok \/ TopicPositions(GenericPs) = {})) =>
          /\ r.status = "invalid"
          /\ ~r.u.ok

\* An accepted link with two exact topics, both read from exact_topics().
C1_Witness ==
    /\ Accepted
    /\ Holds("i1", "exact_topics")
    /\ AtEnd("i1")
    /\ Len(it["i1"].out) = 2

\* The transform of a view threw: the element is what value() leaves of a
\* failed parse.
ThrewAt(s, k) ==
    IF Holds(s, "exact_topics") THEN ~it[s].out[k].ok
    ELSE it[s].out[k] = Thrown

\* Every exact topic of ps has a value that parses as a URI.
TopicsParse(ps) == \A i \in TopicPositions(ps) : parse_uri(ps[i].value).ok

\* C2: in an accepted input the value of every exact topic, at any position
\* of the query, parses as a URI, so no element of exact_topics(),
\* info_hashes() or protocols() comes from a failed parse; an input with an
\* exact topic whose value is no URI (or is missing, or empty) is rejected.
C2_EveryExactTopicParses ==
    /\ Accepted =>
          /\ TopicsParse(Ps)
          /\ \A s \in Iterators :
                it[s].acc \in TopicAccessors =>
                   \A k \in 1..Len(it[s].out) : ~ThrewAt(s, k)
    /\ (/\ r.status # "none"
        /\ Generic.ok
        /\ ~TopicsParse(GenericPs))
          => r.status = "invalid"

\* An accepted link whose second parameter is an exact topic, other than
\* the first one, read to the end through info_hashes().
C2_Witness ==
    /\ Accepted
    /\ Cardinality(TopicPositions(Ps)) >= 2
    /\ Holds("i1", "info_hashes")
    /\ AtEnd("i1")
    /\ Len(it["i1"].out) >= 2

\* C3: every view returned wraps a URI whose scheme is "magnet".
C3_SchemeIsMagnet ==
    Accepted => r.u.scheme = <<"m", "a", "g", "n", "e", "t">>

\* The decoded key k names an exact topic: "xt", or "xt." and then one or
\* more digits.
ExactTopicKey(k) ==
    \/ k = <<"x", "t">>
    \/ /\ Len(k) > 3
       /\ SubSeq(k, 1, 3) = <<"x", "t", ".">>
       /\ \A i \in 4..Len(k) : k[i] \in Digit

\* Decoded keys that differ from a topic key by case, by a missing digit, by
\* a letter where a digit must be, or by a missing dot.
NearTopicKeys == { <<"X", "T">>, <<"x", "t", ".">>, <<"x", "t", ".", "a">>, <<"x", "t", "a">>, << >> }

\* C4: is_exact_topic answers true exactly for the keys that decode to "xt"
\* or to "xt." followed by digits only, at least one; it rejects "XT",
\* "xt.", "xt.a", "xta" and the empty key, and accepts "%78%74".
C4_ExactTopicKeys ==
    probe.called =>
        /\ probe.result <=> ExactTopicKey(Decode(probe.key))
        /\ Decode(probe.key) \in NearTopicKeys => ~probe.result
        /\ probe.key = <<"%", "7", "8", "%", "7", "4">> => probe.result

\* is_exact_topic has accepted a key spelled with escapes only, with a
\* number after the dot.
C4_Witness ==
    /\ probe.called
    /\ probe.key = <<"%", "7", "8", "%", "7", "4", "%", "2", "e", "1">>
    /\ probe.result

\* The decoded values of the first n parameters of ps whose decoded key is
\* key, that have a value, and whose value decoded once is a URI.
RECURSIVE KeyedValues(_, _, _)
KeyedValues(ps, n, key) ==
    IF n = 0 THEN << >>
    ELSE KeyedValues(ps, n - 1, key) \o
         (IF /\ Decode(ps[n].key) = key
             /\ ps[n].has_value
             /\ parse_uri(Decode(ps[n].value)).ok
          THEN << Decode(ps[n].value) >>
          ELSE << >>)

\* The parameters an iterator in place s has gone through.
Seen(s) == IF it[s].pos <= Len(Ps) THEN it[s].pos ELSE Len(Ps)

\* C5: what has been read from a view of address_trackers, exact_sources,
\* acceptable_sources, manifest_topics or web_seed is exactly the decoded
\* values, in query order and with repetitions, of the parameters gone
\* through whose decoded key is the accessor's key (tr, xs, as, mt, ws),
\* that have a value, and whose value decoded once parses as a URI; the
\* others are skipped and the iteration goes on to the end.
C5_KeysViewElements ==
    \A s \in Iterators :
        it[s].acc \in KeyAccessors =>
            it[s].out = KeyedValues(Ps, Seen(s), KeyOf[it[s].acc])

\* address_trackers() read to the end of a link whose first tracker is not a
\* URI and whose second, its key spelled with an escape, is one.
C5_Witness ==
    /\ Accepted
    /\ Len(Ps) = 3
    /\ Ps[2].key = <<"t", "r">>
    /\ Ps[2].value = <<"b", "a", "d">>
    /\ Ps[3].key = <<"%", "7", "4", "r">>
    /\ Holds("i1", "address_trackers")
    /\ AtEnd("i1")
    /\ it["i1"].out = << <<"w", ":", "/", "/", "h">> >>

\* The elements of the view of acc read from position from up to position
\* upto, by a pass that starts with an empty scratch buffer.
RECURSIVE FreshPass(_, _, _, _)
FreshPass(ps, acc, from, upto) ==
    IF find_next(ps, from, acc, << >>).pos > Len(ps) THEN << >>
    ELSE IF find_next(ps, from, acc, << >>).pos > upto THEN << >>
    ELSE Deref(acc, ps, find_next(ps, from, acc, << >>).pos) \o
         FreshPass(ps, acc, find_next(ps, from, acc, << >>).pos + 1, upto)

\* What a first call of the accessor held in place s gives, read as far as
\* the place has read it.
FirstCall(s) ==
    CASE it[s].acc = "keyword_topic" -> Elems(keyword_topic(r.u))
      [] it[s].acc = "display_name" -> Elems(display_name(r.u))
      [] it[s].acc = "param" -> Elems(param(r.u, it[s].arg))
      [] OTHER -> FreshPass(Ps, it[s].acc, 1, it[s].pos)

\* The places s and t hold results of the same call.
SameCall(s, t) == it[s].acc = it[t].acc /\ it[s].arg = it[t].arg

\* C8: whatever was called and iterated before, however far, and whatever
\* the scratch buffer held, the elements read from an accessor are those of
\* a first call on the parsed link, and two iterations of the same accessor
\* agree element for element as far as both have gone.
C8_AccessorsIdempotent ==
    /\ \A s \in Iterators : it[s].acc # "none" => it[s].out = FirstCall(s)
    /\ \A s, t \in Iterators :
          (SameCall(s, t) /\ it[s].pos <= it[t].pos) =>
              it[s].out = SubSeq(it[t].out, 1, Len(it[s].out))

\* address_trackers() iterated twice over one buffer: once to the end, two
\* elements read, and once again up to its first element.
C8_Witness ==
    /\ Holds("i1", "address_trackers")
    /\ Holds("i2", "address_trackers")
    /\ AtEnd("i1")
    /\ Len(it["i1"].out) = 2
    /\ ~AtEnd("i2")
    /\ Len(it["i2"].out) = 1
    /\ buf = it["i2"].out[1]

\* C10 as stated: the scratch buffer holds the element a keys_view produced
\* last, and holds what it held at first while none has been produced.
C10_BufferHoldsLastProduced ==
    IF produced.has THEN buf = produced.value ELSE buf \in InitialBuffers

\* C10, amended: the scratch buffer holds the decoded value of the
\* parameter a keys_view filter tested last among those whose key is the
\* view's key, produced or not; parameters with other keys leave no trace,
\* and the buffer holds what it held at first while no such parameter has
\* been tested.
C10_BufferHoldsLastTested ==
    IF tested.has THEN buf = tested.value ELSE buf \in InitialBuffers

\* A tracker was produced, then a later tracker that is not a URI was
\* tested and skipped: the buffer holds the skipped value.
C10_Witness ==
    /\ produced.has
    /\ tested.has
    /\ tested.value # produced.value
    /\ buf = <<"b", "a", "d">>
    /\ \E s \in Iterators : Holds(s, "address_trackers") /\ AtEnd(s)

\* The position of the k-th exact topic of ps.
NthTopic(ps, k) ==
    CHOOSE i \in TopicPositions(ps) :
        Cardinality({j \in TopicPositions(ps) : j <= i}) = k

\* The path of the URI nested in the k-th exact topic of the link.
TopicPath(k) == encoded_path(parse_uri(Ps[NthTopic(Ps, k)].value))

\* The positions of the colons of the text t.
Colons(t) == {i \in 1..Len(t) : t[i] = ":"}

\* The text t before, and after, the character at position i.
Before(t, i) == SubSeq(t, 1, i - 1)

After(t, i) == SubSeq(t, i + 1, Len(t))

\* The element an iterator of acc reads for a topic whose path is t, by
\* the claim: the part of t after its last colon for info_hashes(), the
\* part before it for protocols(); a path with no colon is the info hash.
SplitAtLastColon(acc, t) ==
    IF Colons(t) # {}
    THEN IF acc = "info_hashes" THEN After(t, Max(Colons(t)))
         ELSE Before(t, Max(Colons(t)))
    ELSE t

\* The path t is the protocol, a colon, and the info hash.
Rejoins(t) ==
    Colons(t) # {} =>
        SplitAtLastColon("protocols", t) \o << ":" >> \o
            SplitAtLastColon("info_hashes", t) = t

\* C6: the k-th element of info_hashes() is the path of the k-th exact
\* topic's nested URI after its last colon, the k-th element of protocols()
\* is that path before its last colon, and the two joined by a colon give
\* the path back; of a path with no colon the info hash is the whole path.
C6_SplitAtLastColon ==
    \A s \in Iterators :
        (Accepted /\ it[s].acc \in {"info_hashes", "protocols"}) =>
            \A k \in 1..Len(it[s].out) :
                /\ (it[s].acc = "info_hashes" \/ Colons(TopicPath(k)) # {}) =>
                      it[s].out[k] = SplitAtLastColon(it[s].acc, TopicPath(k))
                /\ Rejoins(TopicPath(k))

\* protocols() has read the protocol of a topic whose path has two colons:
\* the first colon stays in it.
C6_Witness ==
    /\ Accepted
    /\ Holds("i1", "protocols")
    /\ it["i1"].out # << >>
    /\ it["i1"].out[Len(it["i1"].out)] = <<"a", ":", "b">>
    /\ TopicPath(Len(it["i1"].out)) = <<"a", ":", "b", ":", "c">>

\* The positions of ps whose decoded key is "x." and then name, and that
\* have a value.
Supplements(ps, name) ==
    {i \in 1..Len(ps) :
        /\ Len(Decode(ps[i].key)) >= 2
        /\ SubSeq(Decode(ps[i].key), 1, 2) = <<"x", ".">>
        /\ SubSeq(Decode(ps[i].key), 3, Len(Decode(ps[i].key))) = name
        /\ ps[i].has_value}

\* The least element of a non-empty set of numbers.
Min(S) == CHOOSE x \in S : \A y \in S : x <= y

\* C7: param(name) returns the decoded value of the first parameter whose
\* decoded key is "x." followed by name and that has a value, and nothing
\* if there is none; a key without the prefix, a key of fewer than two
\* characters and a matching key with no value are passed over.
C7_ParamFirstSupplement ==
    \A s \in Iterators :
        (Accepted /\ Holds(s, "param")) =>
            IF Supplements(Ps, it[s].arg) = {} THEN it[s].out = << >>
            ELSE it[s].out =
                    << Decode(Ps[Min(Supplements(Ps, it[s].arg))].value) >>

\* param("a") on a link where "x.a" comes first without a value and then
\* with the value "v".
C7_Witness ==
    /\ Accepted
    /\ Len(Ps) = 3
    /\ Ps[2].key = <<"x", ".", "a">>
    /\ ~Ps[2].has_value
    /\ Ps[3].key = <<"x", ".", "a">>
    /\ Holds("i1", "param")
    /\ it["i1"].arg = <<"a">>
    /\ it["i1"].out = << <<"v">> >>

\* Every exact topic among the parameters the generic grammar gives is a
\* URI, and there is one.
HasTopicsAllUris(ps) == TopicPositions(ps) # {} /\ TopicsParse(ps)

TopicsAreUris == HasTopicsAllUris(GenericPs)

\* C9: an input the generic grammar accepts, with at least one exact topic
\* and every exact topic a URI, is never rejected as invalid, whatever its
\* other parameters hold and wherever they stand; it is accepted by
\* parse_magnet_link whenever the generic grammar takes the whole text.
C9_OnlyTopicsValidated ==
    (r.status # "none" /\ Generic.ok /\ TopicsAreUris) =>
        /\ r.status # "invalid"
        /\ Generic.next = Len(input) + 1 => Accepted

\* An accepted link with a tracker that is no URI before its exact topic
\* and another after it.
C9_Witness ==
    /\ Accepted
    /\ Len(Ps) = 3
    /\ Ps[1].key = <<"t", "r">>
    /\ Ps[1].value = <<"b", "a", "d">>
    /\ is_exact_topic(Ps[2])
    /\ Ps[3].key = <<"t", "r">>
    /\ ~parse_uri(Decode(Ps[3].value)).ok

\* The number of exact topics of the link.
TopicCount == Cardinality(TopicPositions(Ps))

\* C11: of an exact topic whose nested path has no colon, protocols()
\* yields the whole path, which is what info_hashes() yields for it; and
\* once read to the end, protocols(), info_hashes() and exact_topics() have
\* one element for each exact topic of the link.
C11_ProtocolOfPlainPath ==
    \A s \in Iterators :
        (Accepted /\ it[s].acc \in TopicAccessors) =>
            /\ Holds(s, "protocols") =>
                  \A k \in 1..Len(it[s].out) :
                      Colons(TopicPath(k)) = {} =>
                          /\ it[s].out[k] = TopicPath(k)
                          /\ it[s].out[k] = to_infohash(Ps[NthTopic(Ps, k)])
            /\ AtEnd(s) => Len(it[s].out) = TopicCount

\* protocols() read to the end of a link with two exact topics, the last
\* one with the path "p", which has no colon: its protocol is "p".
C11_Witness ==
    /\ Accepted
    /\ Holds("i1", "protocols")
    /\ AtEnd("i1")
    /\ Len(it["i1"].out) = 2
    /\ TopicPath(2) = <<"p">>
    /\ it["i1"].out[2] = <<"p">>

====
